---- MODULE Spec2Model ----
(***************************************************************************)
(* cc-notifier (src/cc_notifier.py): the session-state and deduplication   *)
(* protocol.  Every invocation of the hook script is a short-lived         *)
(* process running one of init / notify / cleanup; the processes share the *)
(* session directory /tmp/cc_notifier and nothing else.                    *)
(*                                                                         *)
(* Time is counted in whole seconds.  A session file is an inode holding   *)
(* the two text lines "window_id" and "timestamp" as two fields; a file    *)
(* that was just truncated holds neither (win = "", ts = NoTs).            *)
(***************************************************************************)
EXTENDS Integers, Sequences, FiniteSets, TLC

\* ------------------------------------------------------------ constants
CLEANUP_AGE_SECONDS == 432000
NOTIFICATION_DEDUPLICATION_THRESHOLD_SECONDS == 2
DEFAULT_IDLE_CHECK_INTERVALS == <<3>>

\* ------------------------------------------------------------ bounds
NumProcs == 2          \* hook processes alive at the same time
MaxInvocations == 2    \* invocations started in one behaviour
MaxTicks == 3          \* seconds the clock advances in one behaviour
MaxInodes == 4         \* inodes the file system hands out
StartTime == 1000000   \* time.time() when the behaviour begins

Procs == 1..NumProcs
Inodes == 1..MaxInodes
SessionIds == {"s1"}
OtherNames == {"old", "sub"}
Names == SessionIds \cup OtherNames
Windows == {"w1", "w2"}
NoTs == 0 - 1
\* the window id the tests store for a session started over SSH
RemoteSentinel == "REMOTE"

\* what the window-focus CLI can answer (stdout, or the way it fails)
FocusOutcomes == Windows \cup {"ERROR", "", "EXIT_NONZERO", "TIMEOUT"}
\* what `ioreg` can answer: idle seconds, or the way the query fails
IdleValues == {0, 2, 3, 30}
IdleFailures == {"EXIT_NONZERO", "TIMEOUT", "NO_HIDIDLETIME", "UNPARSABLE", "NO_BINARY"}
\* what the push HTTP call can do
PushOutcomes == {"OK", "API_FAIL", "URL_ERROR", "BAD_JSON", "READ_TIMEOUT"}
\* what stdin can hold
StdinKinds == {"OK", "BAD_JSON", "NO_SESSION_ID"}

VARIABLES
  now,      \* the wall clock, time.time()
  dir,      \* SESSION_DIR: name -> inode (0: no such entry)
  ino,      \* inode -> [kind, win, ts, mtime, lock]
  env,      \* [token, user, ssh]: the environment of the hook processes
  proc,     \* process slot -> the invocation running in it
  started,  \* invocations started so far
  exited,   \* the invocation whose process exited in the step just taken (NoProc: none)
  lastProceed, \* inode -> time of the latest dedup check that proceeded (NoTs: none since the record was created)
  call      \* a function of the module called on its own: its arguments and results (NoCall: none)

vars == <<now, dir, ino, env, proc, started, exited, lastProceed, call>>

\* ------------------------------------------------------------ helpers
FreeInode == [kind |-> "free", win |-> "", ts |-> NoTs, mtime |-> 0, lock |-> 0]

NoLines == [n |-> 0, l0 |-> "", l1 |-> NoTs]
NoDecision == [name |-> "", age |-> 0, del |-> FALSE]

\* No function is being called on its own.
NoCall == [fn |-> "none"]

\* No entry was written to the diagnostic log.
NoEntry == [level |-> "", command |-> "", exception |-> ""]

\* A process slot in which nothing runs.
NoProc ==
  [cmd |-> "none", pc |-> "idle", sid |-> "", stdin |-> "OK", fd |-> 0,
   lines |-> NoLines, dup |-> FALSE, why |-> "", orig |-> "", win |-> "",
   exit |-> 0 - 1, err |-> "", logged |-> NoEntry,
   focusq |-> 0, focus |-> "NONE", sent |-> <<>>,
   checks |-> <<>>, ck |-> 0, prev |-> 0, wake |-> 0,
   samples |-> <<>>, sleeps |-> <<>>, pushes |-> 0, pushres |-> "",
   cutoff |-> 0, todo |-> {}, cur |-> "", dec |-> NoDecision, cleaned |-> 0, scanned |-> 0,
   listed |-> {}, ages |-> <<>>, failed |-> {},
   t0 |-> 0, prevp |-> NoTs, had |-> FALSE]

\* The next state of process p is r.  A process that exits leaves its slot;
\* `exited` shows it, as it ended, in the state its last step leads to.
After(pr, p, r) == [pr EXCEPT ![p] = IF r.pc = "done" THEN NoProc ELSE r]
Left(r) == IF r.pc = "done" THEN r ELSE NoProc
Set(p, r) == proc' = After(proc, p, r) /\ exited' = Left(r) /\ call' = call

\* handle_command_errors, lines 43-47: the exception is logged (log_error) and
\* the process exits with status 1
\* log_error and _write_log_entry, lines 256-280: the entry
\* "[time] [ERROR] Command '<name>' failed - <type>: <message>"
LogEntry_NoException(command_name, e) ==
  [level |-> "ERROR", command |-> command_name, exception |-> ""]
LogEntry(command_name, e) ==
  [level |-> "ERROR", command |-> command_name, exception |-> e]

Fail_ExitZero(r, e) ==
  [r EXCEPT !.pc = "done", !.exit = 0, !.err = e, !.logged = LogEntry(r.cmd, e)]
Fail(r, e) ==
  [r EXCEPT !.pc = "done", !.exit = 1, !.err = e, !.logged = LogEntry(r.cmd, e)]

\* the wrapper returns normally: exit status 0
Succeed(r) == [r EXCEPT !.pc = "done", !.exit = 0]

\* the text of a session file as read_text()/f.read() returns it, split in lines
FileLines(i) ==
  IF ino[i].ts = NoTs
    THEN [n |-> 1, l0 |-> ino[i].win, l1 |-> NoTs]
    ELSE [n |-> 2, l0 |-> ino[i].win, l1 |-> ino[i].ts]

\* os.getenv(name) is falsy for a variable that is unset or empty
Truthy(v) == v \notin {"UNSET", ""}

\* PushConfig.from_env, lines 442-450: a config only `if token and user`
PushConfigured_Always == TRUE
PushConfigured == Truthy(env.token) /\ Truthy(env.user)

\* cmd_notify line 101: os.getenv(TOKEN) and os.getenv(USER_KEY)
PushEnabled_TokenOnly == Truthy(env.token)
PushEnabled == Truthy(env.token) /\ Truthy(env.user)

\* ------------------------------------------------------------ initial state
\* The session directory as earlier invocations left it.  "old" is the file
\* of another session and "sub" a subdirectory; both were last touched
\* `oldAge` seconds ago.  The file of session "s1" is absent ("none"), was
\* created by init `s1Age` seconds ago and never notified ("created"), or
\* was rewritten by a proceeding notify `s1Age` seconds ago ("notified").
SessionFile(kind, window_id, ts, mtime) ==
  [kind |-> kind, win |-> window_id, ts |-> ts, mtime |-> mtime, lock |-> 0]

InitStore(oldAge, s1State, s1Age) ==
  /\ dir = [n \in Names |-> IF n = "old" THEN 1
                            ELSE IF n = "sub" THEN 2
                            ELSE IF s1State = "none" THEN 0 ELSE 3]
  /\ ino = [i \in Inodes |->
              IF i = 1 THEN SessionFile("file", "w2", 0, StartTime - oldAge)
              ELSE IF i = 2 THEN SessionFile("dir", "", NoTs, StartTime - oldAge)
              ELSE IF i = 3 /\ s1State = "created"
                THEN SessionFile("file", "w1", 0, StartTime - s1Age)
              ELSE IF i = 3 /\ s1State = "notified"
                THEN SessionFile("file", "w1", StartTime - s1Age, StartTime - s1Age)
              ELSE IF i = 3 /\ s1State = "remote"
                THEN SessionFile("file", RemoteSentinel, 0, StartTime - s1Age)
              ELSE FreeInode]
  /\ lastProceed = [i \in Inodes |->
                      IF i = 3 /\ s1State = "notified" THEN StartTime - s1Age ELSE NoTs]

SixDays == 6 * 24 * 60 * 60
OneDay == 1 * 24 * 60 * 60

InitRest ==
  /\ now = StartTime
  /\ proc = [p \in Procs |-> NoProc]
  /\ started = 0
  /\ exited = NoProc
  /\ call = NoCall

Environments == [token : {"UNSET", "x"}, user : {"", "x"}, ssh : BOOLEAN]

Init ==
  /\ InitRest
  /\ env \in Environments
  /\ \/ InitStore(SixDays, "none", 0)
     \/ InitStore(SixDays, "created", OneDay)
     \/ InitStore(SixDays, "created", SixDays)
     \/ InitStore(SixDays, "notified", 1)

\* ------------------------------------------------------------ the clock
TickTo(limit) ==
  /\ now < StartTime + limit
  /\ now' = now + 1
  /\ exited' = NoProc
  /\ UNCHANGED <<dir, ino, env, proc, started, lastProceed, call>>

Tick == TickTo(MaxTicks)

\* ------------------------------------------------------------ dispatch
\* main() routes to cmd_init / cmd_notify / cmd_cleanup, each of which first
\* parses stdin (HookData.from_stdin); a parse failure ends the command.
FirstStep_SavesFirst(c) ==
  IF c = "init" THEN "in_open" ELSE IF c = "notify" THEN "n_open" ELSE "c_scan"
FirstStep(c) ==
  IF c = "init" THEN "in_focus" ELSE IF c = "notify" THEN "n_open" ELSE "c_scan"

Begin(p, c) ==
  /\ proc[p].pc = "idle"
  /\ \A q \in Procs : q < p => proc[q].pc # "idle"
  /\ started < MaxInvocations
  /\ started' = started + 1
  /\ \E k \in StdinKinds, s \in SessionIds :
       LET r == [NoProc EXCEPT !.cmd = c, !.sid = s, !.stdin = k] IN
       Set(p, IF k = "OK" THEN [r EXCEPT !.pc = FirstStep(c)]
              ELSE Fail(r, IF k = "BAD_JSON" THEN "ValueError" ELSE "TypeError"))
  /\ UNCHANGED <<now, dir, ino, env, lastProceed>>

StartInit(p) == Begin(p, "init")
StartNotify(p) == Begin(p, "notify")
StartCleanup(p) == Begin(p, "cleanup")

\* ------------------------------------------------------------ file system
\* An inode nobody names and nobody holds open is given back.
Reclaim(f, d, holders) ==
  [i \in Inodes |->
     IF f[i].kind = "file" /\ (\A n \in Names : d[n] # i) /\ i \notin holders
       THEN FreeInode ELSE f[i]]

Holders(pr) == {pr[q].fd : q \in Procs} \ {0}

\* ------------------------------------------------------------ notify
\* check_deduplication, line 163: open(session_file, "r+")
NOpen(p) ==
  /\ proc[p].pc = "n_open"
  /\ LET i == dir[proc[p].sid] IN
       Set(p, IF i = 0 THEN Fail(proc[p], "FileNotFoundError")
              ELSE [proc[p] EXCEPT !.pc = "n_flock", !.fd = i])
  /\ UNCHANGED <<now, dir, ino, env, started, lastProceed>>

\* line 164: flock(LOCK_EX | LOCK_NB) succeeds iff nobody holds the lock
LockAvailable_Always(f) == TRUE
LockAvailable(f) == f.lock = 0

\* line 164: with LOCK_NB the call returns at once, whoever holds the lock
\* (without it the call would return only once the lock is free)
FlockReturns_Blocking(f) == f.lock = 0
FlockReturns(f) == TRUE

\* line 164: flock(LOCK_EX | LOCK_NB); lines 176-177: BlockingIOError -> True
NFlock(p) ==
  /\ proc[p].pc = "n_flock"
  /\ FlockReturns(ino[proc[p].fd])
  /\ LET i == proc[p].fd IN
       IF ~LockAvailable(ino[i])
         THEN /\ Set(p, [proc[p] EXCEPT !.pc = "n_close", !.dup = TRUE, !.why = "lock"])
              /\ UNCHANGED ino
         ELSE /\ Set(p, [proc[p] EXCEPT !.pc = "n_read"])
              /\ ino' = [ino EXCEPT ![i].lock = p]
  /\ UNCHANGED <<now, dir, env, started, lastProceed>>

\* line 165: lines = f.read().strip().split("\n")
NRead(p) ==
  /\ proc[p].pc = "n_read"
  /\ Set(p, [proc[p] EXCEPT !.pc = "n_check", !.lines = FileLines(proc[p].fd)])
  /\ UNCHANGED <<now, dir, ino, env, started, lastProceed>>

\* lines 166-170: time.time() - float(lines[1]) < THRESHOLD
IsDuplicate_Never(t, stored) == FALSE
IsDuplicate_Shorter(t, stored) == t - stored < 1
IsDuplicate(t, stored) == t - stored < NOTIFICATION_DEDUPLICATION_THRESHOLD_SECONDS

NCheck(p) ==
  /\ proc[p].pc = "n_check"
  /\ LET r == proc[p] IN
       IF r.lines.n < 2
         THEN /\ Set(p, [r EXCEPT !.pc = "n_close", !.err = "IndexError"])
              /\ UNCHANGED lastProceed
       ELSE IF IsDuplicate(now, r.lines.l1)
         THEN /\ Set(p, [r EXCEPT !.pc = "n_close", !.dup = TRUE, !.why = "threshold",
                                  !.t0 = now, !.prevp = lastProceed[r.fd]])
              /\ UNCHANGED lastProceed
       ELSE /\ Set(p, [r EXCEPT !.pc = "n_write", !.t0 = now, !.prevp = lastProceed[r.fd]])
            /\ lastProceed' = [lastProceed EXCEPT ![r.fd] = now]
  /\ UNCHANGED <<now, dir, ino, env, started>>

\* lines 172-174: f.seek(0); f.write(f"{lines[0]}\n{time.time()}"); f.truncate()
Rewritten_LosesWindow(f, lines, t) == [f EXCEPT !.win = "", !.ts = t, !.mtime = t]
Rewritten_ZeroTimestamp(f, lines, t) == [f EXCEPT !.win = lines.l0, !.ts = 0, !.mtime = t]
Rewritten_KeepsTimestamp(f, lines, t) == [f EXCEPT !.win = lines.l0, !.mtime = t]
Rewritten(f, lines, t) == [f EXCEPT !.win = lines.l0, !.ts = t, !.mtime = t]

NWrite(p) ==
  /\ proc[p].pc = "n_write"
  /\ ino' = [ino EXCEPT ![proc[p].fd] = Rewritten(@, proc[p].lines, now)]
  /\ Set(p, [proc[p] EXCEPT !.pc = "n_close"])
  /\ UNCHANGED <<now, dir, env, started, lastProceed>>

\* leaving the `with` block closes the file, which drops the lock, on the
\* return paths and on the exception path alike
Unlocked_Never(f, p) == f
Unlocked_Always(f, p) == [f EXCEPT !.lock = 0]
Unlocked(f, p) == [f EXCEPT !.lock = IF @ = p THEN 0 ELSE @]

\* cmd_notify lines 96-97: `if check_deduplication(session_file): return`
AfterDedup_IgnoresAnswer(r) == [r EXCEPT !.pc = "n_readwin"]
AfterDedup(r) == IF r.dup THEN Succeed(r) ELSE [r EXCEPT !.pc = "n_readwin"]

NClose(p) ==
  /\ proc[p].pc = "n_close"
  /\ LET r == [proc[p] EXCEPT !.fd = 0, !.lines = NoLines, !.t0 = 0, !.prevp = NoTs]
         r2 == IF r.err # "" THEN Fail(r, r.err) ELSE AfterDedup(r)
         pr == After(proc, p, r2) IN
       /\ Set(p, r2)
       /\ ino' = Reclaim([ino EXCEPT ![proc[p].fd] = Unlocked(@, p)], dir, Holders(pr))
  /\ UNCHANGED <<now, dir, env, started, lastProceed>>

\* cmd_notify line 99: session_file.read_text().strip().split("\n")[0]
NReadWin(p) ==
  /\ proc[p].pc = "n_readwin"
  /\ LET i == dir[proc[p].sid] IN
       Set(p, IF i = 0 THEN Fail(proc[p], "FileNotFoundError")
              ELSE [proc[p] EXCEPT !.pc = "n_focus", !.orig = ino[i].win])
  /\ UNCHANGED <<now, dir, ino, env, started, lastProceed>>

\* get_focused_window_id, lines 312-328: the CLI's stdout, or RuntimeError
FocusFails_MissesError(o) == o \notin Windows \cup {"ERROR"}
FocusFails(o) == o \notin Windows

\* line 186: the notification is sent unless the two ids are equal
ShouldNotifyLocally_Always(original_window_id, current_window_id) == TRUE
ShouldNotifyLocally(original_window_id, current_window_id) ==
  original_window_id # current_window_id

\* send_local_notification_if_needed, lines 184-188
NFocus(p) ==
  /\ proc[p].pc = "n_focus"
  /\ \E o \in FocusOutcomes :
       LET r == [proc[p] EXCEPT !.focusq = @ + 1, !.focus = o] IN
       Set(p, IF FocusFails(o) THEN Fail(r, "RuntimeError")
              ELSE IF ShouldNotifyLocally(r.orig, o) THEN [r EXCEPT !.win = o, !.pc = "n_send"]
              ELSE [r EXCEPT !.win = o, !.pc = "n_pushcfg"])
  /\ UNCHANGED <<now, dir, ino, env, started, lastProceed>>

\* create_focus_command, lines 331-357: the script compares w:id() with window_id
create_focus_command(window_id) == [cli |-> "hs", target |-> window_id]

\* send_notification, lines 396-426: -execute is added only for a non-empty id
NoExecute == [cli |-> "", target |-> ""]
send_notification(focus_window_id, launched) ==
  [execute |-> IF focus_window_id # "" THEN create_focus_command(focus_window_id)
               ELSE NoExecute,
   launched |-> launched]

\* line 201: focus_window_id = original_window_id
FocusTarget_Current(original_window_id, current_window_id) == current_window_id
FocusTarget(original_window_id, current_window_id) == original_window_id

\* send_notification lines 420-426: an exception of Popen is raised again
AfterSend_Swallows(r, ok) == [r EXCEPT !.pc = "n_pushcfg"]
AfterSend(r, ok) == IF ok THEN [r EXCEPT !.pc = "n_pushcfg"] ELSE Fail(r, "OSError")

\* lines 191-202: the sink is started; Popen may fail to start it (OSError),
\* which ends the command
NSend(p) ==
  /\ proc[p].pc = "n_send"
  /\ \E ok \in BOOLEAN :
       LET r == [proc[p] EXCEPT !.sent = Append(@, send_notification(FocusTarget(proc[p].orig, proc[p].win), ok))] IN
       Set(p, AfterSend(r, ok))
  /\ UNCHANGED <<now, dir, ino, env, started, lastProceed>>

\* cmd_notify lines 101-103
NPushCfg(p) ==
  /\ proc[p].pc = "n_pushcfg"
  /\ Set(p, IF PushEnabled
              THEN [proc[p] EXCEPT !.pc = "i_cfg", !.checks = DEFAULT_IDLE_CHECK_INTERVALS]
              ELSE Succeed(proc[p]))
  /\ UNCHANGED <<now, dir, ino, env, started, lastProceed>>

\* ------------------------------------------------------------ idle escalation
\* check_idle_and_notify_push, lines 521-526
ICfg(p) ==
  /\ proc[p].pc = "i_cfg"
  /\ Set(p, IF ~PushConfigured THEN Succeed(proc[p])
            ELSE IF proc[p].checks = <<>> THEN Fail(proc[p], "ValueError")
            ELSE [proc[p] EXCEPT !.pc = "i_sleep", !.ck = 1, !.prev = 0])
  /\ UNCHANGED <<now, dir, ino, env, started, lastProceed>>

\* line 530: time.sleep(check_time - previous_time); a negative length raises
SleepLength_Absolute(check_time, previous_time) == check_time
SleepLength(check_time, previous_time) == check_time - previous_time

ISleep(p) ==
  /\ proc[p].pc = "i_sleep"
  /\ LET r == proc[p]
         gap == SleepLength(r.checks[r.ck], r.prev) IN
       Set(p, IF gap < 0 THEN Fail(r, "ValueError")
              ELSE [r EXCEPT !.pc = "i_wait", !.wake = now + gap,
                             !.sleeps = Append(@, gap)])
  /\ UNCHANGED <<now, dir, ino, env, started, lastProceed>>

\* the sleep returns once its length has passed
IWake(p) ==
  /\ proc[p].pc = "i_wait"
  /\ now >= proc[p].wake
  /\ Set(p, [proc[p] EXCEPT !.pc = "i_sample"])
  /\ UNCHANGED <<now, dir, ino, env, started, lastProceed>>

\* get_idle_time, lines 498-508, and is_user_idle, lines 511-516: a failed or
\* timed-out command and a missing HIDIdleTime line are RuntimeError, which
\* is_user_idle turns into "not idle"; int() of an unparsable value and a
\* missing binary raise other exceptions, which it does not catch
IdleRaises(o) == o.fail \in {"UNPARSABLE", "NO_BINARY"}
is_user_idle_Strict(o, seconds) == o.fail = "" /\ o.v > seconds
is_user_idle(o, seconds) == o.fail = "" /\ o.v >= seconds

IdleOutcomes ==
  [v : IdleValues, fail : {""}] \cup [v : {0}, fail : IdleFailures]

\* lines 529-533: one pass of the loop after the sleep
ISample(p) ==
  /\ proc[p].pc = "i_sample"
  /\ \E o \in IdleOutcomes :
       LET r == [proc[p] EXCEPT !.samples = Append(@, o)]
           t == r.checks[r.ck] IN
       Set(p, IF IdleRaises(o)
                THEN Fail(r, IF o.fail = "UNPARSABLE" THEN "ValueError" ELSE "FileNotFoundError")
              ELSE IF ~is_user_idle(o, t) THEN Succeed(r)
              ELSE IF r.ck = Len(r.checks) THEN [r EXCEPT !.prev = t, !.pc = "i_push"]
              ELSE [r EXCEPT !.prev = t, !.ck = @ + 1, !.pc = "i_sleep"])
  /\ UNCHANGED <<now, dir, ino, env, started, lastProceed>>

\* send_pushover_notification, lines 453-495: URLError, JSONDecodeError and
\* KeyError are caught (False); a timeout while reading the response is none
\* of them and leaves the function as an exception
PushRaises(o) == o = "READ_TIMEOUT"

\* lines 535-539
IPush(p) ==
  /\ proc[p].pc = "i_push"
  /\ \E o \in PushOutcomes :
       LET r == [proc[p] EXCEPT !.pushes = @ + 1, !.pushres = o] IN
       Set(p, IF PushRaises(o) THEN Fail(r, "TimeoutError") ELSE Succeed(r))
  /\ UNCHANGED <<now, dir, ino, env, started, lastProceed>>

\* ------------------------------------------------------------ init
\* cmd_init line 86: get_focused_window_id()
InFocus(p) ==
  /\ proc[p].pc = "in_focus"
  /\ \E o \in FocusOutcomes :
       LET r == [proc[p] EXCEPT !.focusq = @ + 1, !.focus = o] IN
       Set(p, IF FocusFails(o) THEN Fail(r, "RuntimeError")
              ELSE [r EXCEPT !.win = o, !.pc = "in_open"])
  /\ UNCHANGED <<now, dir, ino, env, started, lastProceed>>

\* save_window_id, lines 207-209: write_text opens the file for writing, which
\* creates it or truncates it, without taking the lock
Truncated(f, t) == [f EXCEPT !.kind = "file", !.win = "", !.ts = NoTs, !.mtime = t]

InOpen(p) ==
  /\ proc[p].pc = "in_open"
  /\ LET n == proc[p].sid
         i == dir[n]
         free == {j \in Inodes : ino[j].kind = "free"} IN
       IF i # 0
         THEN /\ ino' = [ino EXCEPT ![i] = Truncated(@, now)]
              /\ lastProceed' = [lastProceed EXCEPT ![i] = NoTs]
              /\ Set(p, [proc[p] EXCEPT !.pc = "in_write", !.fd = i, !.had = TRUE])
              /\ UNCHANGED dir
         ELSE /\ free # {}
              /\ LET j == CHOOSE j \in free : \A k \in free : j <= k IN
                   /\ ino' = [ino EXCEPT ![j] = Truncated(@, now)]
                   /\ lastProceed' = [lastProceed EXCEPT ![j] = NoTs]
                   /\ dir' = [dir EXCEPT ![n] = j]
                   /\ Set(p, [proc[p] EXCEPT !.pc = "in_write", !.fd = j])
  /\ UNCHANGED <<now, env, started>>

\* the text "{window_id}\n0" reaches the file when write_text closes it
Saved_Merge(f, window_id, t) == [f EXCEPT !.win = window_id, !.mtime = t]
Saved(f, window_id, t) == [f EXCEPT !.win = window_id, !.ts = 0, !.mtime = t]

InWrite(p) ==
  /\ proc[p].pc = "in_write"
  /\ LET i == proc[p].fd
         pr == After(proc, p, Succeed(proc[p])) IN
       /\ Set(p, Succeed(proc[p]))
       /\ ino' = Reclaim([ino EXCEPT ![i] = Saved(@, proc[p].win, now)], dir, Holders(pr))
       /\ lastProceed' = [lastProceed EXCEPT ![i] = NoTs]
  /\ UNCHANGED <<now, dir, env, started>>

\* ------------------------------------------------------------ cleanup
\* cleanup_session, lines 227-229: the cutoff, and the directory listing
CutoffTime_Now(t) == t
CutoffTime(t) == t - CLEANUP_AGE_SECONDS

CScan(p) ==
  /\ proc[p].pc = "c_scan"
  /\ LET listing == {n \in Names : dir[n] # 0} IN
       Set(p, [proc[p] EXCEPT !.pc = "c_next", !.cutoff = CutoffTime(now), !.scanned = now,
                              !.todo = listing, !.listed = listing,
                              !.ages = [n \in listing |->
                                          IF ino[dir[n]].kind = "file"
                                            THEN now - ino[dir[n]].mtime ELSE NoTs]])
  /\ UNCHANGED <<now, dir, ino, env, started, lastProceed>>

\* line 233: st_mtime < cutoff_time
TooOld_Inclusive(mtime, cutoff) == mtime <= cutoff
TooOld(mtime, cutoff) == mtime < cutoff

\* line 230: is_file() stats the entry.  A missing entry is "not a file"; a
\* stat refused with a permission error is raised by pathlib up to Python
\* 3.13 and read as "not a file" from 3.14 on
IsFileOutcomes(f) == IF f.kind = "noperm" THEN {"RAISED", "NOT_A_FILE"} ELSE {"OK"}

\* lines 229-233: the next entry; not a regular file, or gone: skipped
CStat(p) ==
  /\ proc[p].pc = "c_next"
  /\ \E n \in proc[p].todo :
     \E o \in IF dir[n] = 0 THEN {"OK"} ELSE IsFileOutcomes(ino[dir[n]]) :
       LET r == [proc[p] EXCEPT !.todo = @ \ {n}]
           i == dir[n] IN
       Set(p, IF o = "RAISED" THEN Fail(r, "PermissionError")
              ELSE IF i = 0 \/ ino[i].kind # "file" THEN [r EXCEPT !.dec = NoDecision]
              ELSE IF TooOld(ino[i].mtime, r.cutoff)
                THEN [r EXCEPT !.pc = "c_unlink", !.cur = n,
                               !.dec = [name |-> n, age |-> r.scanned - ino[i].mtime, del |-> TRUE]]
              ELSE [r EXCEPT !.dec = [name |-> n, age |-> r.scanned - ino[i].mtime, del |-> FALSE]])
  /\ UNCHANGED <<now, dir, ino, env, started, lastProceed>>

\* lines 234-237: unlink(missing_ok=True); an OSError skips the file
CUnlink(p) ==
  /\ proc[p].pc = "c_unlink"
  /\ \E o \in {"OK", "EPERM"} :
       LET r == proc[p]
           n == r.cur
           d == [dir EXCEPT ![n] = 0] IN
       IF o = "EPERM"
         THEN /\ Set(p, [r EXCEPT !.pc = "c_next", !.cur = "", !.failed = @ \cup {n}])
              /\ UNCHANGED <<dir, ino>>
         ELSE /\ Set(p, [r EXCEPT !.pc = "c_next", !.cur = "", !.cleaned = @ + 1])
              /\ dir' = d
              /\ ino' = Reclaim(ino, d, Holders(proc))
  /\ UNCHANGED <<now, env, started, lastProceed>>

\* the listing is exhausted: lines 239-242, and the command returns
CDone(p) ==
  /\ proc[p].pc = "c_next"
  /\ proc[p].todo = {}
  /\ Set(p, Succeed(proc[p]))
  /\ UNCHANGED <<now, dir, ino, env, started, lastProceed>>

\* ------------------------------------------------------------ specification
NotifySteps(p) ==
  \/ NOpen(p) \/ NFlock(p) \/ NRead(p) \/ NCheck(p) \/ NWrite(p) \/ NClose(p)
  \/ NReadWin(p) \/ NFocus(p) \/ NSend(p) \/ NPushCfg(p)

IdleSteps(p) == ICfg(p) \/ ISleep(p) \/ IWake(p) \/ ISample(p) \/ IPush(p)

InitSteps(p) == InFocus(p) \/ InOpen(p) \/ InWrite(p)

CleanupSteps(p) == CScan(p) \/ CStat(p) \/ CUnlink(p) \/ CDone(p)

\* The whole system: any number of invocations of the three commands, racing.
Next ==
  \/ Tick
  \/ \E p \in Procs :
       \/ StartInit(p) \/ StartNotify(p) \/ StartCleanup(p)
       \/ NotifySteps(p) \/ IdleSteps(p) \/ InitSteps(p) \/ CleanupSteps(p)

Spec == Init /\ [][Next]_vars

\* ---- the session store alone: init and notify racing on the session file,
\* ---- with the push path disabled by the environment
InitDedup ==
  /\ InitRest
  /\ env = [token |-> "UNSET", user |-> "x", ssh |-> FALSE]
  /\ \/ InitStore(SixDays, "none", 0)
     \/ InitStore(SixDays, "created", OneDay)
     \/ InitStore(SixDays, "notified", 1)

\* two invocations racing need one second less of clock than the escalation
NextDedup ==
  \/ TickTo(MaxTicks - 1)
  \/ \E p \in Procs :
       \/ StartInit(p) \/ StartNotify(p)
       \/ NotifySteps(p) \/ InitSteps(p)

SpecDedup == InitDedup /\ [][NextDedup]_vars

\* ---- notify invocations alone, racing on the session file
NextRace == Tick \/ \E p \in Procs : StartNotify(p) \/ NotifySteps(p)

SpecRace == InitDedup /\ [][NextRace]_vars

\* ---- the records init left behind: notify and cleanup invocations racing,
\* ---- no init
InitKeep ==
  /\ InitRest
  /\ env = [token |-> "UNSET", user |-> "x", ssh |-> FALSE]
  /\ \/ InitStore(SixDays, "created", OneDay)
     \/ InitStore(SixDays, "created", SixDays)
     \/ InitStore(SixDays, "notified", 1)

\* one cleanup at a time, racing with the notify invocations
OneCleanup(p) == (\A q \in Procs : proc[q].cmd # "cleanup") /\ StartCleanup(p)

NextKeep ==
  \/ TickTo(1)
  \/ \E p \in Procs :
       \/ StartNotify(p) \/ OneCleanup(p)
       \/ NotifySteps(p) \/ CleanupSteps(p)

SpecKeep == InitKeep /\ [][NextKeep]_vars

\* ---- one invocation at a time, of any command, in any environment
Quiet == \A q \in Procs : proc[q].pc = "idle"

SoloInit(p) == Quiet /\ StartInit(p)
SoloNotify(p) == Quiet /\ StartNotify(p)
SoloCleanup(p) == Quiet /\ StartCleanup(p)

NextSolo ==
  \/ Tick
  \/ \E p \in Procs :
       \/ SoloInit(p) \/ SoloNotify(p) \/ SoloCleanup(p)
       \/ NotifySteps(p) \/ IdleSteps(p) \/ InitSteps(p) \/ CleanupSteps(p)

SpecSolo == Init /\ [][NextSolo]_vars

\* ---- the retention sweep: one invocation at a time over a directory whose
\* ---- files have ages on both sides of the retention window
SweepAges == {SixDays, CLEANUP_AGE_SECONDS + 1, CLEANUP_AGE_SECONDS,
              CLEANUP_AGE_SECONDS - 1, OneDay}

InitSweep ==
  /\ InitRest
  /\ env = [token |-> "UNSET", user |-> "UNSET", ssh |-> FALSE]
  /\ \E a \in SweepAges, b \in SweepAges : InitStore(a, "created", b)

NextSweep ==
  \/ Tick
  \/ \E p \in Procs :
       \/ SoloInit(p) \/ SoloNotify(p) \/ SoloCleanup(p)
       \/ NotifySteps(p) \/ InitSteps(p) \/ CleanupSteps(p)

SpecSweep == InitSweep /\ [][NextSweep]_vars

\* ---- the same, over a directory in which session s1 has no record
InitNoRecord ==
  /\ InitRest
  /\ env = [token |-> "UNSET", user |-> "UNSET", ssh |-> FALSE]
  /\ \E a \in SweepAges : InitStore(a, "none", 0)

SpecNoRecord == InitNoRecord /\ [][NextSweep]_vars

\* ---- check_idle_and_notify_push called on its own with a list of checkpoints
CheckLists == {<<>>, <<3>>, <<1, 3>>, <<1, 2, 3>>, <<2, 2>>, <<3, 1>>}

InitIdle ==
  /\ now = StartTime
  /\ env \in Environments
  /\ InitStore(SixDays, "none", 0)
  /\ \E c \in CheckLists :
       proc = [p \in Procs |->
                 IF p = 1 THEN [NoProc EXCEPT !.cmd = "push", !.pc = "i_cfg", !.checks = c]
                 ELSE NoProc]
  /\ started = 1
  /\ exited = NoProc
  /\ call = NoCall

NextIdle == Tick \/ \E p \in Procs : IdleSteps(p)

SpecIdle == InitIdle /\ [][NextIdle]_vars

\* ---- a session started over SSH: the session file holds the remote sentinel
InitRemote ==
  /\ InitRest
  /\ env \in {e \in Environments : e.ssh}
  /\ InitStore(SixDays, "remote", 1)

SpecRemote == InitRemote /\ [][NextSolo]_vars

\* ------------------------------------------------------------ functions called on their own
\* Everything but `call` at rest: no process runs and the store is empty.
Others == <<now, dir, ino, env, proc, started, exited, lastProceed>>

InitOthers ==
  /\ now = StartTime
  /\ proc = [p \in Procs |-> NoProc]
  /\ started = 0
  /\ exited = NoProc
  /\ env = [token |-> "UNSET", user |-> "", ssh |-> FALSE]
  /\ InitStore(SixDays, "none", 0)

\* ------------------------------------------------------------ the text of a session file
\* A text is a sequence of characters: a digit, a space, a line feed, a
\* carriage return.
Chars == {"5", "SP", "LF", "CR"}
Whitespace == {"SP", "LF", "CR"}
MaxLen == 3            \* characters of a window id
WindowIdTexts == UNION {[1..k -> Chars] : k \in 0..MaxLen}

\* save_window_id line 209: write_text(f"{window_id}\n0")
SessionText_NoSeparator(window_id) == window_id \o <<"0">>
SessionText(window_id) == window_id \o <<"LF", "0">>

\* read_text() opens the file in text mode: "\r\n" and "\r" are read as "\n"
RECURSIVE UniversalNewlines(_)
UniversalNewlines(s) ==
  IF s = <<>> THEN <<>>
  ELSE IF Head(s) = "CR"
    THEN <<"LF">> \o UniversalNewlines(IF Len(s) >= 2 /\ s[2] = "LF" THEN Tail(Tail(s))
                                       ELSE Tail(s))
  ELSE <<Head(s)>> \o UniversalNewlines(Tail(s))

\* str.strip(): leading and trailing whitespace removed
RECURSIVE LStrip(_)
LStrip(s) == IF s # <<>> /\ Head(s) \in Whitespace THEN LStrip(Tail(s)) ELSE s

RECURSIVE RStrip(_)
RStrip(s) ==
  IF s # <<>> /\ s[Len(s)] \in Whitespace THEN RStrip(SubSeq(s, 1, Len(s) - 1)) ELSE s

strip(s) == RStrip(LStrip(s))

\* str.split("\n")[0]: the text up to the first line feed
RECURSIVE FirstLine(_)
FirstLine(s) ==
  IF s = <<>> \/ Head(s) = "LF" THEN <<>> ELSE <<Head(s)>> \o FirstLine(Tail(s))

\* load_window_id, lines 217-219: read_text().strip().split("\n")[0]
load_window_id(text) == FirstLine(strip(UniversalNewlines(text)))

\* save_window_id(session_id, window_id) called with any text as window id ...
InitRoundTrip ==
  /\ InitOthers
  /\ \E w \in WindowIdTexts :
       call = [fn |-> "save_load", stage |-> "input", window_id |-> w,
               file |-> <<>>, out |-> <<>>]

SaveWindowId ==
  /\ call.fn = "save_load" /\ call.stage = "input"
  /\ call' = [call EXCEPT !.stage = "saved", !.file = SessionText(call.window_id)]
  /\ UNCHANGED Others

\* ... and load_window_id(session_id) called after it
LoadWindowId ==
  /\ call.fn = "save_load" /\ call.stage = "saved"
  /\ call' = [call EXCEPT !.stage = "loaded", !.out = load_window_id(call.file)]
  /\ UNCHANGED Others

NextRoundTrip == SaveWindowId \/ LoadWindowId

SpecRoundTrip == InitRoundTrip /\ [][NextRoundTrip]_vars

\* ------------------------------------------------------------ the path of a session file
\* A path is the sequence of its components below the root.  A session id is
\* text from stdin: a sequence of components separated by "/", with or
\* without a leading "/".
SESSION_DIR == <<"tmp", "cc_notifier">>
MaxParts == 2          \* components of a session id
PathParts == {"s1", "..", "tmp"}
SessionIdTexts ==
  [abs : BOOLEAN, parts : UNION {[1..k -> PathParts] : k \in 1..MaxParts}]

\* SESSION_DIR / session_id (lines 93 and 208): pathlib keeps the right-hand
\* side alone when it is absolute, and keeps ".." components as they are
SessionFilePath(session_id) ==
  IF session_id.abs THEN session_id.parts ELSE SESSION_DIR \o session_id.parts

\* the file the operating system opens for a path: ".." steps to the parent
RECURSIVE Resolved(_, _)
Resolved(at, path) ==
  IF path = <<>> THEN at
  ELSE IF Head(path) = ".."
    THEN Resolved(IF at = <<>> THEN at ELSE SubSeq(at, 1, Len(at) - 1), Tail(path))
  ELSE Resolved(Append(at, Head(path)), Tail(path))

\* init (save_window_id) or notify (check_deduplication, read_text) called
\* with any session id: the path is built, then the file is opened
InitPaths ==
  /\ InitOthers
  /\ \E s \in SessionIdTexts, c \in {"init", "notify"} :
       call = [fn |-> "session_file", stage |-> "input", cmd |-> c, session_id |-> s,
               path |-> <<>>, file |-> <<>>]

BuildPath ==
  /\ call.fn = "session_file" /\ call.stage = "input"
  /\ call' = [call EXCEPT !.stage = "built", !.path = SessionFilePath(call.session_id)]
  /\ UNCHANGED Others

OpenPath ==
  /\ call.fn = "session_file" /\ call.stage = "built"
  /\ call' = [call EXCEPT !.stage = "opened", !.file = Resolved(<<>>, call.path)]
  /\ UNCHANGED Others

NextPaths == BuildPath \/ OpenPath

SpecPaths == InitPaths /\ [][NextPaths]_vars

\* ------------------------------------------------------------ composing a notification
\* The JSON object on stdin: a field is absent, empty, or holds a value.
Absent == "ABSENT"
EventNames == {Absent, "", "Stop", "SubagentStop", "Notification"}
EventMessages == {Absent, "", "X"}
EventCwds == {Absent, "", "/work/proj"}
HookEvents ==
  [session_id : SessionIds, hook_event_name : EventNames, message : EventMessages,
   cwd : EventCwds]

\* HookData.from_stdin, lines 149-154: a field that is absent or falsy is
\* dropped and the dataclass default stands in for it
FieldOr(v, default) == IF v \in {Absent, ""} THEN default ELSE v

from_stdin(data) ==
  [session_id |-> data.session_id,
   cwd |-> FieldOr(data.cwd, ""),
   hook_event_name |-> FieldOr(data.hook_event_name, "Stop"),
   message |-> FieldOr(data.message, "")]

\* create_notification_data, lines 371-375: the message
NotificationBody_AnyEvent(hook_data) ==
  IF hook_data.message # "" THEN hook_data.message ELSE "Completed task"
NotificationBody(hook_data) ==
  IF hook_data.hook_event_name = "Notification" /\ hook_data.message # ""
    THEN hook_data.message
    ELSE "Completed task"

\* Path(cwd).name
PathName(cwd) == IF cwd = "/work/proj" THEN "proj" ELSE cwd

\* create_notification_data, lines 365-393 (DEBUG off)
create_notification_data(hook_data, for_push) ==
  LET subtitle == IF hook_data.cwd # "" THEN PathName(hook_data.cwd) ELSE "Task Completed" IN
  [title |-> IF for_push THEN <<subtitle, "[time]">> ELSE <<"Claude Code">>,
   subtitle |-> subtitle,
   message |-> NotificationBody(hook_data)]

\* a hook event is parsed, then composed for the local or the push channel
InitCompose ==
  /\ InitOthers
  /\ \E d \in HookEvents, c \in BOOLEAN :
       call = [fn |-> "compose", stage |-> "input", data |-> d, for_push |-> c,
               hook_data |-> from_stdin([d EXCEPT !.hook_event_name = Absent,
                                                  !.message = Absent, !.cwd = Absent]),
               composed |-> [title |-> <<>>, subtitle |-> "", message |-> ""]]

ParseEvent ==
  /\ call.fn = "compose" /\ call.stage = "input"
  /\ call' = [call EXCEPT !.stage = "parsed", !.hook_data = from_stdin(call.data)]
  /\ UNCHANGED Others

ComposeNotification ==
  /\ call.fn = "compose" /\ call.stage = "parsed"
  /\ call' = [call EXCEPT !.stage = "composed",
                          !.composed = create_notification_data(call.hook_data, call.for_push)]
  /\ UNCHANGED Others

NextCompose == ParseEvent \/ ComposeNotification

SpecCompose == InitCompose /\ [][NextCompose]_vars

\* ------------------------------------------------------------ the diagnostic log
\* The log is the sequence of its lines; a line is named by the serial number
\* it got when it was written.  An entry is one line, or two when its
\* message holds a line break.  One process writes at a time.
MAX_LOG_LINES == 2250
TRIM_TO_LINES == 1250
MaxWrites == 3         \* entries written in one behaviour

NoLog == <<>>
Lines(from, n) == [k \in 1..n |-> from + k - 1]

\* the log as earlier invocations left it: absent, or holding so many lines
InitialLogLines ==
  {0, 1, TRIM_TO_LINES, MAX_LOG_LINES - 1, MAX_LOG_LINES, MAX_LOG_LINES + 1,
   MAX_LOG_LINES + 2}

InitLog ==
  /\ InitOthers
  /\ \E present \in BOOLEAN, n \in InitialLogLines :
       /\ ~present => n = 0
       /\ call = [fn |-> "write_log", stage |-> "idle", exists |-> present,
                  log |-> Lines(1, n), all |-> Lines(1, n), before |-> NoLog,
                  entry |-> 0, writes |-> 0]

\* _trim_log_if_needed, lines 250-253: lines[-TRIM_TO_LINES:]
TrimmedLines_Oldest(lines) == SubSeq(lines, 1, TRIM_TO_LINES)
TrimmedLines(lines) == SubSeq(lines, Len(lines) - TRIM_TO_LINES + 1, Len(lines))

\* line 250: no file, or not more than MAX_LOG_LINES lines: nothing is done
NeedsTrim(exists, lines) == exists /\ Len(lines) > MAX_LOG_LINES

\* _write_log_entry, lines 260-261: an entry of n lines is about to be
\* written; the log is trimmed first
TrimLogIfNeeded ==
  /\ call.fn = "write_log" /\ call.stage = "idle"
  /\ call.writes < MaxWrites
  /\ \E n \in {1, 2} :
       call' = [call EXCEPT !.stage = "trimmed", !.entry = n, !.before = call.log,
                            !.writes = @ + 1,
                            !.log = IF NeedsTrim(call.exists, call.log)
                                      THEN TrimmedLines(call.log) ELSE call.log]
  /\ UNCHANGED Others

\* lines 263-269: the file is rewritten as its text followed by the entry, or
\* created holding the entry alone
AppendEntry ==
  /\ call.fn = "write_log" /\ call.stage = "trimmed"
  /\ LET new == Lines(Len(call.all) + 1, call.entry) IN
       call' = [call EXCEPT !.stage = "idle", !.exists = TRUE,
                            !.log = (IF call.exists THEN call.log ELSE NoLog) \o new,
                            !.all = call.all \o new]
  /\ UNCHANGED Others

NextLog == TrimLogIfNeeded \/ AppendEntry

SpecLog == InitLog /\ [][NextLog]_vars

\* ------------------------------------------------------------ the entry point
\* main() called with a command line and an environment.  The command is the
\* first argument besides --debug ("": there is none).
Commands == {"", "--version", "-v", "init", "notify", "cleanup", "status"}
WrapperValues == {"UNSET", "", "1"}

InitMain ==
  /\ InitOthers
  /\ \E c \in Commands, d \in BOOLEAN, w \in WrapperValues :
       call = [fn |-> "main", stage |-> "input", argv |-> c, debug_flag |-> d,
               wrapper |-> w, DEBUG |-> FALSE, command |-> "", routed |-> "",
               stdout |-> "", stderr |-> "", exit |-> 0 - 1]

\* lines 62-67: --debug is taken off the command line; no command is "help"
ReadArguments ==
  /\ call.fn = "main" /\ call.stage = "input"
  /\ call' = [call EXCEPT !.stage = "parsed", !.DEBUG = call.debug_flag,
                          !.command = IF call.argv = "" THEN "help" ELSE call.argv]
  /\ UNCHANGED Others

\* lines 69-79: the version, a routed command (whose wrapper ends the process
\* with status 1 when the command raised), or the usage text and status 1
Dispatch ==
  /\ call.fn = "main" /\ call.stage = "parsed"
  /\ \E raised \in BOOLEAN :
       call' =
         IF call.command \in {"--version", "-v"}
           THEN [call EXCEPT !.stage = "done", !.stdout = "version", !.exit = 0]
         ELSE IF call.command \in {"init", "notify", "cleanup"}
           THEN [call EXCEPT !.stage = "done", !.routed = call.command,
                             !.exit = IF raised THEN 1 ELSE 0]
         ELSE [call EXCEPT !.stage = "done", !.stdout = "usage", !.exit = 1]
  /\ UNCHANGED Others

NextMain == ReadArguments \/ Dispatch

SpecMain == InitMain /\ [][NextMain]_vars

\* ---- notify invocations racing on the session file, with push configured:
\* ---- the local notification and the idle escalation take their time
InitSlow ==
  /\ InitRest
  /\ env = [token |-> "x", user |-> "x", ssh |-> FALSE]
  /\ InitStore(SixDays, "created", OneDay)

\* a second invocation starts while a first one runs, never a third
SecondNotify(p) ==
  /\ Cardinality({q \in Procs : proc[q].pc # "idle"}) < 2
  /\ StartNotify(p)

NextSlow ==
  \/ Tick
  \/ \E p \in Procs : SecondNotify(p) \/ NotifySteps(p) \/ IdleSteps(p)

SpecSlow == InitSlow /\ [][NextSlow]_vars

\* ---- notify invocations racing, where a process that is trying the lock or
\* ---- was locked out keeps running, while nothing is assumed about the
\* ---- process that holds the lock: it may stay in its locked section for ever
LockedOutClose(p) == proc[p].why = "lock" /\ NClose(p)

NextNoWait ==
  \/ TickTo(MaxTicks - 1)
  \/ \E p \in Procs : StartNotify(p) \/ NotifySteps(p)

SpecNoWait ==
  /\ InitDedup
  /\ [][NextNoWait]_vars
  /\ \A p \in Procs :
       WF_vars(NOpen(p)) /\ WF_vars(NFlock(p)) /\ WF_vars(LockedOutClose(p))

\* ---- the retention sweep over a directory holding an entry that cannot be
\* ---- examined: stat on "sub" is refused with a permission error
InitBlocked ==
  /\ InitRest
  /\ env = [token |-> "UNSET", user |-> "UNSET", ssh |-> FALSE]
  /\ dir = [n \in Names |-> IF n = "old" THEN 1 ELSE IF n = "sub" THEN 2 ELSE 3]
  /\ \E a \in {SixDays, OneDay} :
       ino = [i \in Inodes |->
                IF i = 1 THEN SessionFile("file", "w2", 0, StartTime - SixDays)
                ELSE IF i = 2 THEN SessionFile("noperm", "", NoTs, StartTime - SixDays)
                ELSE IF i = 3 THEN SessionFile("file", "w1", 0, StartTime - a)
                ELSE FreeInode]
  /\ lastProceed = [i \in Inodes |-> NoTs]

SpecBlocked == InitBlocked /\ [][NextSweep]_vars

\* ---- a burst of notify invocations: every invocation starts less than
\* ---- 2 seconds after the behaviour begins, and then takes its time
EarlyNotify(p) ==
  /\ now - StartTime < NOTIFICATION_DEDUPLICATION_THRESHOLD_SECONDS
  /\ SecondNotify(p)

NextBurst ==
  \/ Tick
  \/ \E p \in Procs : EarlyNotify(p) \/ NotifySteps(p) \/ IdleSteps(p)

SpecBurst == InitSlow /\ [][NextBurst]_vars

\* ---- a notify that fails after its dedup check, retried: every invocation
\* ---- after the first starts right after a notify that passed the check
\* ---- and then ended with an exception; time passes before the retry's check
FailedPastDedup(r) ==
  r.cmd = "notify" /\ r.exit = 1 /\ ~r.dup /\ r.focusq > 0

FirstNotify(p) == started = 0 /\ StartNotify(p)
RetryNotify(p) == FailedPastDedup(exited) /\ StartNotify(p)

NextRetry ==
  \/ Tick
  \/ \E p \in Procs :
       \/ FirstNotify(p) \/ RetryNotify(p)
       \/ NotifySteps(p) \/ IdleSteps(p)

SpecRetry == InitSlow /\ [][NextRetry]_vars

\* ============================================================ properties
Threshold == NOTIFICATION_DEDUPLICATION_THRESHOLD_SECONDS
Records == {proc[p] : p \in Procs} \cup {exited}

\* ---- C1: after a dedup check proceeds at time T, every later check on the
\* ---- same session file made before T + 2 is skipped, as long as no init
\* ---- rewrote the record in between: a check that proceeds (it is about to
\* ---- rewrite the timestamp) comes at least 2 seconds after the latest
\* ---- earlier check that proceeded
C1_ProceedThenSkipWithinThreshold ==
  \A p \in Procs :
    proc[p].pc = "n_write" =>
      \/ proc[p].prevp = NoTs
      \/ proc[p].t0 - proc[p].prevp >= Threshold

\* a check made less than 2 seconds after a check of this behaviour proceeded,
\* and skipped by the threshold
C1_Witness ==
  \E p \in Procs :
    /\ proc[p].pc = "n_close" /\ proc[p].dup /\ proc[p].why = "threshold"
    /\ proc[p].prevp >= StartTime
    /\ proc[p].t0 - proc[p].prevp < Threshold

\* ---- C2 as stated: of the notify invocations of one session that run at
\* ---- the same time, at most one has been told to proceed by the dedup check
Proceeded(r) ==
  /\ r.cmd = "notify"
  /\ r.pc \in {"n_readwin", "n_focus", "n_send", "n_pushcfg"}

C2_AtMostOneConcurrentProceeds ==
  \A p \in Procs, q \in Procs :
    p # q => ~(Proceeded(proc[p]) /\ Proceeded(proc[q]))

\* ---- C2, amended: the locked read-check-rewrite sections of concurrent
\* ---- notify invocations never overlap, what a section read is still what
\* ---- the file holds when it decides and rewrites, and an invocation that
\* ---- proceeds while another that proceeded is still running made its check
\* ---- at least 2 seconds after that one's
InLockedSection(p) ==
  /\ proc[p].pc \in {"n_read", "n_check", "n_write", "n_close"}
  /\ proc[p].why # "lock"

C2_LockedSectionsLinearizable ==
  /\ \A p \in Procs, q \in Procs :
       p # q => ~(InLockedSection(p) /\ InLockedSection(q))
  /\ \A p \in Procs :
       proc[p].pc \in {"n_check", "n_write"} => FileLines(proc[p].fd) = proc[p].lines
  /\ \A p \in Procs, q \in Procs :
       (p # q /\ proc[p].pc = "n_write" /\ Proceeded(proc[q])) =>
         /\ proc[p].prevp >= StartTime
         /\ proc[p].t0 - proc[p].prevp >= Threshold

\* two invocations alive at once: one proceeded earlier, the other is skipped
\* by the threshold after waiting for nobody
C2_Witness ==
  \E p \in Procs, q \in Procs :
    /\ p # q
    /\ Proceeded(proc[q])
    /\ proc[p].pc = "n_close" /\ proc[p].why = "threshold"
    /\ proc[p].t0 - proc[p].prevp < Threshold

\* ---- C3: a dedup check that finds the lock held by another process answers
\* ---- "skip" and its steps (the failed flock and the close that follows)
\* ---- leave every file as it was, the holder's lock included; the
\* ---- invocation then ends with status 0, no focus query and no notification
C3_LockedOutSkipsUnchanged ==
  [][\A p \in Procs :
       /\ (proc[p].pc = "n_flock" /\ ino[proc[p].fd].lock # 0 /\ proc'[p] # proc[p]) =>
            /\ ino' = ino
            /\ proc'[p].pc = "n_close" /\ proc'[p].dup /\ proc'[p].why = "lock"
       /\ (proc[p].pc = "n_close" /\ proc[p].why = "lock" /\ proc'[p] # proc[p]) =>
            /\ ino' = ino
            /\ exited'.why = "lock" /\ exited'.exit = 0
            /\ exited'.focusq = 0 /\ exited'.sent = <<>>]_vars

\* an invocation that was locked out has ended while the holder is still in
\* its locked section
C3_Witness ==
  /\ exited.why = "lock" /\ exited.exit = 0
  /\ \E q \in Procs : InLockedSection(q) /\ ino[proc[q].fd].lock = q

\* ---- C4: a notify that passed the dedup check, read the stored window and
\* ---- found another window focused has invoked the sink exactly once when
\* ---- its local step is over, not at all before, and the click action it
\* ---- passed embeds the stored window id, not the focused one
FocusAnswered(r) == r.cmd = "notify" /\ r.win \in Windows

C4_SwitchedNotifiesOnceWithOriginal ==
  \A r \in Records :
    (FocusAnswered(r) /\ r.win # r.orig) =>
      IF r.pc = "n_send" THEN r.sent = <<>>
      ELSE /\ Len(r.sent) = 1
           /\ r.sent[1].execute = [cli |-> "hs", target |-> r.orig]
           /\ r.sent[1].execute.target # r.win

\* a notify that ended well after sending the notification for another window
C4_Witness ==
  /\ FocusAnswered(exited) /\ exited.exit = 0
  /\ exited.orig = "w1" /\ exited.win = "w2"
  /\ Len(exited.sent) = 1 /\ exited.sent[1].launched

\* ---- C5: a notify that finds the stored window focused never invokes the
\* ---- sink, whatever the push configuration
C5_StayedNeverNotifies ==
  \A r \in Records :
    (FocusAnswered(r) /\ r.win = r.orig) => r.sent = <<>>

\* such a notify, with push configured, which went on to send the push
C5_Witness ==
  /\ FocusAnswered(exited) /\ exited.win = exited.orig
  /\ Truthy(env.token) /\ Truthy(env.user)
  /\ exited.pushes = 1 /\ exited.exit = 0

\* ---- C6 as stated: in an SSH session whose session file holds the remote
\* ---- sentinel, notify sends no local notification and does not fail for
\* ---- lack of a local window
C6_RemoteNeverNotifiesLocally ==
  \A r \in Records :
    (env.ssh /\ r.cmd = "notify" /\ r.orig = RemoteSentinel) =>
      /\ r.sent = <<>>
      /\ r.err # "RuntimeError"

\* ---- C7: a push is sent at most once; it is sent only when every
\* ---- checkpoint was slept to and sampled with idle time >= the checkpoint,
\* ---- hence not before the last checkpoint; and a procedure that ends
\* ---- after all its checkpoints passed has sent exactly one
Passed(r, k) == r.samples[k].fail = "" /\ r.samples[k].v >= r.checks[k]

AllPassed(r) ==
  /\ r.checks # <<>>
  /\ Len(r.samples) = Len(r.checks)
  /\ \A k \in 1..Len(r.checks) : Passed(r, k)

C7_AllCheckpointsPassOnePush ==
  \A r \in Records :
    r.cmd = "push" =>
      /\ r.pushes <= 1
      /\ r.pushes = 1 =>
           /\ AllPassed(r)
           /\ Len(r.sleeps) = Len(r.checks)
           /\ now >= StartTime + r.checks[Len(r.checks)]
      /\ (r.pc = "done" /\ AllPassed(r)) => r.pushes = 1

\* checkpoints [3], idle time 30 at the checkpoint: one push, and the
\* procedure is over
C7_Witness ==
  /\ exited.cmd = "push" /\ exited.checks = <<3>>
  /\ exited.samples = <<[v |-> 30, fail |-> ""]>>
  /\ exited.pushes = 1 /\ exited.pushres = "OK"

\* ---- C8 as stated: with checkpoints [3] and an idle source that answers 30
\* ---- to the first query (the baseline) and 2 to the second (after the
\* ---- sleep), no push is sent
IdleScript == <<30, 2>>

FollowsScript(r) ==
  /\ Len(r.samples) <= Len(IdleScript)
  /\ \A k \in 1..Len(r.samples) :
       r.samples[k] = [v |-> IdleScript[k], fail |-> ""]

C8_BaselineThenActiveNoPush ==
  \A r \in Records :
    (r.cmd = "push" /\ r.checks = <<3>> /\ FollowsScript(r)) => r.pushes = 0

\* ---- C9: when the two push credentials are not both set and non-empty, a
\* ---- notify never enters the idle escalation: no sleep, no idle sample, no
\* ---- push; and it is no error: a notify whose local step went through
\* ---- (window unchanged, or the notification launched) ends with status 0
LocalStepDone(r) ==
  /\ FocusAnswered(r)
  /\ r.win = r.orig \/ (Len(r.sent) = 1 /\ r.sent[1].launched)

C9_NoCredentialsNoEscalation ==
  ~(Truthy(env.token) /\ Truthy(env.user)) =>
    \A r \in Records :
      r.cmd = "notify" =>
        /\ r.pc \notin {"i_cfg", "i_sleep", "i_wait", "i_sample", "i_push"}
        /\ r.sleeps = <<>> /\ r.samples = <<>> /\ r.pushes = 0
        /\ (r.pc = "done" /\ LocalStepDone(r)) => (r.exit = 0 /\ r.err = "")

\* a token without a user key: the notification went out and notify ended
\* with status 0
C9_Witness ==
  /\ env.token = "x" /\ env.user = ""
  /\ FocusAnswered(exited) /\ exited.exit = 0
  /\ Len(exited.sent) = 1 /\ exited.sent[1].launched

\* ---- C10: cleanup decides on age alone: a regular file is picked for
\* ---- deletion iff it is more than 5 days old at the time of the sweep, and
\* ---- when cleanup ends the entries gone from the directory are exactly the
\* ---- listed regular files older than that (less those whose unlink
\* ---- failed); directories, younger files and files exactly 5 days old
\* ---- remain, the file of the session passed to cleanup among them
C10_SweepDeletesExactlyOld ==
  \A r \in Records :
    r.cmd = "cleanup" =>
      /\ r.dec.name # "" => (r.dec.del <=> r.dec.age > CLEANUP_AGE_SECONDS)
      /\ (r.pc = "done" /\ r.exit = 0) =>
           \A n \in Names :
             dir[n] = 0 <=>
               \/ n \notin r.listed
               \/ r.ages[n] > CLEANUP_AGE_SECONDS /\ n \notin r.failed

\* a sweep for session s1 that removed the 6-day-old file of another session
\* and kept the file of s1, which was exactly 5 days old
C10_Witness ==
  /\ exited.cmd = "cleanup" /\ exited.sid = "s1"
  /\ exited.listed = Names
  /\ exited.ages["old"] = SixDays /\ dir["old"] = 0
  /\ exited.ages["s1"] = CLEANUP_AGE_SECONDS /\ dir["s1"] # 0
  /\ dir["sub"] # 0

\* ---- C11 as stated: for every window id, save_window_id followed by
\* ---- load_window_id returns exactly the window id that was saved
C11_RoundTripEveryWindowId ==
  (call.fn = "save_load" /\ call.stage = "loaded") => call.out = call.window_id

\* ---- C11, amended: save_window_id followed by load_window_id returns the
\* ---- saved window id exactly when that id is not empty, contains no line
\* ---- feed or carriage return, and does not begin with whitespace (every
\* ---- single-line answer of the window-focus query is such an id)
SingleLineNoLeadingSpace(w) ==
  /\ w # <<>>
  /\ \A k \in 1..Len(w) : w[k] \notin {"LF", "CR"}
  /\ w[1] # "SP"

C11_RoundTripSingleLineWindowId ==
  (call.fn = "save_load" /\ call.stage = "loaded") =>
    (call.out = call.window_id <=> SingleLineNoLeadingSpace(call.window_id))

\* the window id "5 5" saved and read back
C11_Witness ==
  /\ call.fn = "save_load" /\ call.stage = "loaded"
  /\ call.window_id = <<"5", "SP", "5">>
  /\ call.file = <<"5", "SP", "5", "LF", "0">>
  /\ call.out = <<"5", "SP", "5">>

\* ---- C12: an init that ends well leaves, under its session id, a record
\* ---- holding exactly the window id it captured and the timestamp 0,
\* ---- whatever record was there before; and a check is skipped by the
\* ---- threshold only if a check proceeded since the last init wrote the
\* ---- record, so the first notify after an init is never a duplicate
C12_InitReplacesRecord ==
  /\ (exited.cmd = "init" /\ exited.exit = 0) =>
       /\ dir[exited.sid] # 0
       /\ ino[dir[exited.sid]].kind = "file"
       /\ ino[dir[exited.sid]].win = exited.win
       /\ ino[dir[exited.sid]].ts = 0
  /\ \A p \in Procs :
       (proc[p].pc = "n_close" /\ proc[p].why = "threshold") =>
         /\ proc[p].prevp # NoTs
         /\ proc[p].lines.l1 # 0

\* the first invocation of the behaviour is an init that found a record
\* (every record of the initial store names window w1) and replaced it with
\* window w2 and timestamp 0
C12_Witness ==
  /\ exited.cmd = "init" /\ exited.exit = 0 /\ exited.win = "w2"
  /\ exited.had /\ started = 1
  /\ ino[dir[exited.sid]].win = "w2" /\ ino[dir[exited.sid]].ts = 0

\* ---- C13: no step of a notify or a cleanup changes the window id of a
\* ---- record: as long as a name stays in the session directory it names the
\* ---- same regular file and that file holds the same window id; a step
\* ---- changes at most the timestamp (and the file's mtime and lock)
C13_WindowIdImmutable ==
  [][\A n \in Names :
       (dir[n] # 0 /\ dir'[n] # 0) =>
         /\ dir'[n] = dir[n]
         /\ ino'[dir[n]].kind = ino[dir[n]].kind
         /\ ino'[dir[n]].win = ino[dir[n]].win]_vars

\* the record of s1 was rewritten by a proceeding notify and still names
\* window w1, and a cleanup has removed the old file of another session
C13_Witness ==
  /\ dir["s1"] # 0
  /\ ino[dir["s1"]].ts >= StartTime /\ ino[dir["s1"]].win = "w1"
  /\ dir["old"] = 0

\* ---- C14: a notify that opens the session file of an id that has no record
\* ---- ends there with FileNotFoundError and exit status 1; it has queried
\* ---- no window, sent no notification and no push, and its step leaves the
\* ---- directory and every file as they were (no file is created)
C14_NotifyWithoutRecordFails ==
  [][\A p \in Procs :
       (proc[p].cmd = "notify" /\ proc[p].pc = "n_open" /\ dir[proc[p].sid] = 0
        /\ proc'[p] # proc[p]) =>
         /\ exited'.cmd = "notify" /\ exited'.err = "FileNotFoundError"
         /\ exited'.exit = 1
         /\ exited'.focusq = 0 /\ exited'.sent = <<>>
         /\ exited'.samples = <<>> /\ exited'.pushes = 0
         /\ dir' = dir /\ ino' = ino]_vars

\* a notify for s1 has just ended that way, with push configured, and s1
\* still has no record
C14_Witness ==
  /\ exited.cmd = "notify" /\ exited.sid = "s1"
  /\ exited.err = "FileNotFoundError" /\ exited.exit = 1
  /\ dir["s1"] = 0
  /\ Truthy(env.token) /\ Truthy(env.user)

\* ---- C15 as stated: a cleanup whose session id has no record ends with
\* ---- exit status 1
C15_CleanupWithoutRecordFails ==
  (exited.cmd = "cleanup" /\ exited.stdin = "OK" /\ exited.sid \notin exited.listed) =>
    exited.exit = 1

\* ---- C15, amended: a cleanup whose session id has no record is no error:
\* ---- the id is not consulted, the sweep removes exactly the listed files
\* ---- older than 5 days (less those whose unlink failed), no record is
\* ---- created for the id, and the invocation ends with exit status 0
C15_CleanupWithoutRecordSucceeds ==
  (exited.cmd = "cleanup" /\ exited.stdin = "OK" /\ exited.sid \notin exited.listed) =>
    /\ exited.exit = 0 /\ exited.err = ""
    /\ dir[exited.sid] = 0
    /\ \A n \in exited.listed :
         dir[n] = 0 <=> (exited.ages[n] > CLEANUP_AGE_SECONDS /\ n \notin exited.failed)

\* a cleanup for s1, which has no record, removed the 6-day-old file of
\* another session and ended with status 0
C15_Witness ==
  /\ exited.cmd = "cleanup" /\ exited.sid = "s1" /\ exited.stdin = "OK"
  /\ exited.listed = {"old", "sub"}
  /\ exited.ages["old"] = SixDays /\ dir["old"] = 0
  /\ exited.exit = 0

\* ---- C16: an invocation of init, notify or cleanup ends with status 1 and
\* ---- an ERROR entry in the log naming its command and the exception
\* ---- exactly when an exception was raised in it (a stdin that is not JSON
\* ---- or lacks session_id raises before anything else is done), and with
\* ---- status 0 and no such entry otherwise
C16_FailuresLoggedExitOne ==
  exited.cmd \in {"init", "notify", "cleanup"} =>
    /\ exited.err # "" =>
         /\ exited.exit = 1
         /\ exited.logged = [level |-> "ERROR", command |-> exited.cmd,
                             exception |-> exited.err]
    /\ exited.err = "" => (exited.exit = 0 /\ exited.logged = NoEntry)
    /\ exited.stdin = "BAD_JSON" => exited.err = "ValueError"
    /\ exited.stdin = "NO_SESSION_ID" => exited.err = "TypeError"
    /\ exited.stdin # "OK" =>
         (exited.focusq = 0 /\ exited.sent = <<>> /\ exited.listed = {})

\* a cleanup whose stdin is not JSON has ended with status 1 and its entry
C16_Witness ==
  /\ exited.cmd = "cleanup" /\ exited.stdin = "BAD_JSON"
  /\ exited.exit = 1
  /\ exited.logged = [level |-> "ERROR", command |-> "cleanup", exception |-> "ValueError"]

\* ---- C17: a notify whose window-focus query exited non-zero, timed out, or
\* ---- answered nothing or "ERROR" has ended on the spot with RuntimeError
\* ---- and exit status 1, without a local notification, an idle sample or a
\* ---- push
FocusFailures == {"EXIT_NONZERO", "TIMEOUT", "", "ERROR"}

PushFailures == {"API_FAIL", "URL_ERROR", "BAD_JSON", "READ_TIMEOUT"}

C18_PushFailureNeverFatal ==
  \A r \in Records :
    (r.cmd = "notify" /\ r.pushes = 1 /\ r.pushres \in PushFailures) =>
      (r.err = "" /\ r.exit = 0)

\* ---- C19 as stated: for every session id, the file that init or notify
\* ---- opens lies inside the session directory
InsideSessionDir(file) ==
  /\ Len(file) > Len(SESSION_DIR)
  /\ SubSeq(file, 1, Len(SESSION_DIR)) = SESSION_DIR

C19_SessionFilesStayInside ==
  (call.fn = "session_file" /\ call.stage = "opened") => InsideSessionDir(call.file)

\* ---- C20: for every hook event and for both channels, the composed body is
\* ---- the event's message when hook_event_name is "Notification" and the
\* ---- message is present and not empty, and "Completed task" otherwise
HasMessage(data) == data.message \notin {Absent, ""}

C20_BodyIsMessageOrFallback ==
  (call.fn = "compose" /\ call.stage = "composed") =>
    IF call.data.hook_event_name = "Notification" /\ HasMessage(call.data)
      THEN call.composed.message = call.data.message
      ELSE call.composed.message = "Completed task"

\* a Stop event that carries a message, composed for the push channel: the
\* body is the fallback
C20_Witness ==
  /\ call.fn = "compose" /\ call.stage = "composed" /\ call.for_push
  /\ call.data.hook_event_name = "Stop" /\ call.data.message = "X"
  /\ call.composed.message = "Completed task"

\* ---- C21 as stated: a log write that takes the log past the 2250-line
\* ---- watermark leaves a file of at most 1250 lines, the most recently
\* ---- written ones in their original order
WriteDone == call.fn = "write_log" /\ call.stage = "idle" /\ call.writes > 0

IsNewestLines(log, all) ==
  /\ Len(log) <= Len(all)
  /\ log = SubSeq(all, Len(all) - Len(log) + 1, Len(all))

C21_PastWatermarkLeavesAtMost1250 ==
  (WriteDone /\ Len(call.before) + call.entry > MAX_LOG_LINES) =>
    /\ Len(call.log) <= TRIM_TO_LINES
    /\ IsNewestLines(call.log, call.all)

\* ---- C21, amended: a log write that finds the log past the 2250-line
\* ---- watermark leaves a file holding at most 1250 lines besides the entry
\* ---- it wrote, and a write that finds it at or under the watermark removes
\* ---- nothing; either way the file holds the most recently written lines in
\* ---- their original order, the new entry last
C21_FoundPastWatermarkKeeps1250AndEntry ==
  WriteDone =>
    /\ IsNewestLines(call.log, call.all)
    /\ Len(call.before) > MAX_LOG_LINES =>
         Len(call.log) = TRIM_TO_LINES + call.entry
    /\ Len(call.before) <= MAX_LOG_LINES =>
         Len(call.log) = Len(call.before) + call.entry

\* a one-line entry written to a log of 2251 lines: 1251 lines remain, the
\* entry last
C21_Witness ==
  /\ WriteDone /\ call.entry = 1
  /\ Len(call.before) = MAX_LOG_LINES + 1
  /\ Len(call.log) = TRIM_TO_LINES + 1
  /\ call.log[Len(call.log)] = call.all[Len(call.all)]

\* ---- C22 as stated: without CC_NOTIFIER_WRAPPER in the environment main()
\* ---- runs no command, --version included: it writes an error to stderr and
\* ---- exits with status 1
C22_RefusesWithoutWrapper ==
  (call.fn = "main" /\ call.stage = "done" /\ call.wrapper = "UNSET") =>
    /\ call.exit = 1
    /\ call.stderr # ""
    /\ call.routed = "" /\ call.stdout # "version"

\* ---- C23: a notify that has queried the focused window, sent a local
\* ---- notification, sampled the idle time or sent a push, or is about to,
\* ---- has rewritten the session file with its timestamp and released the
\* ---- lock before; so while it is busy sending, however long that takes, a
\* ---- second invocation's check reads the refreshed timestamp and proceeds
\* ---- only if 2 seconds have passed since a check proceeded
SideEffectAttempted(r) ==
  r.focusq > 0 \/ r.sent # <<>> \/ r.samples # <<>> \/ r.pushes > 0

PastDedup(r) ==
  /\ r.cmd = "notify"
  /\ \/ r.pc \in {"n_readwin", "n_focus", "n_send", "n_pushcfg",
                  "i_cfg", "i_sleep", "i_wait", "i_sample", "i_push"}
     \/ SideEffectAttempted(r)

PassedDedup(r) ==
  /\ r.cmd = "notify" /\ ~r.dup
  /\ r.pc \in {"n_readwin", "n_focus", "n_send", "n_pushcfg"} \/ r.focusq > 0

C24_TimestampRefreshedEvenIfNothingSent ==
  \A r \in Records :
    PassedDedup(r) =>
      LET f == ino[dir[r.sid]] IN
        /\ dir[r.sid] # 0
        /\ lastProceed[dir[r.sid]] >= StartTime
        /\ f.ts >= lastProceed[dir[r.sid]] /\ f.ts <= now
        /\ f.mtime = f.ts
        /\ r.orig # "" => f.win = r.orig

\* a notify ended with status 0 having found the stored window focused, with
\* nothing sent and no push configured; the record holds a fresh timestamp
C24_Witness ==
  /\ PassedDedup(exited) /\ exited.exit = 0
  /\ exited.win = exited.orig /\ exited.sent = <<>> /\ exited.pushes = 0
  /\ ~Truthy(env.token)
  /\ ino[dir[exited.sid]].ts >= StartTime

\* ---- C25: a dedup check that holds the lock and finds the stored timestamp
\* ---- less than 2 seconds old answers "skip", and neither that step nor the
\* ---- close that follows changes the content of any file; so whenever a
\* ---- timestamp on disk changes, it becomes the 0 an init writes (or
\* ---- nothing, while an init has the file truncated) or the current time
\* ---- written by a check that proceeded
SameContent(f, g) ==
  f.kind = g.kind /\ f.win = g.win /\ f.ts = g.ts /\ f.mtime = g.mtime

C25_ThresholdSkipWritesNothing ==
  [][/\ \A p \in Procs :
          /\ (/\ proc[p].pc = "n_check" /\ proc[p].lines.n = 2
              /\ now - proc[p].lines.l1 < Threshold
              /\ proc'[p] # proc[p]) =>
               /\ proc'[p].pc = "n_close" /\ proc'[p].dup /\ proc'[p].why = "threshold"
               /\ ino' = ino
          /\ (proc[p].pc = "n_close" /\ proc[p].why = "threshold" /\ proc'[p] # proc[p]) =>
               /\ \A i \in Inodes : SameContent(ino'[i], ino[i])
               /\ exited'.exit = 0 /\ exited'.focusq = 0 /\ exited'.sent = <<>>
     /\ \A i \in Inodes :
          ino'[i].ts # ino[i].ts =>
            \/ ino'[i].ts \in {0, NoTs}
            \/ \E p \in Procs :
                 /\ proc[p].pc = "n_write" /\ proc[p].fd = i /\ ~proc[p].dup
                 /\ ino'[i].ts = now]_vars

\* a notify has just ended after a threshold skip, and the record still holds
\* the timestamp a proceeding check of this behaviour wrote
C25_Witness ==
  /\ exited.cmd = "notify" /\ exited.why = "threshold" /\ exited.exit = 0
  /\ ino[dir[exited.sid]].ts >= StartTime
  /\ ino[dir[exited.sid]].ts = lastProceed[dir[exited.sid]]

\* ---- C26: a notify that tries the lock while another process holds it
\* ---- does not wait for the holder: whatever the holder does, even if it
\* ---- never takes another step, the notify's dedup step comes to an end
\* ---- (the invocation leaves with "skip"), unless the lock was freed before
\* ---- the attempt and the notify holds it itself
TriesHeldLock(p) ==
  /\ proc[p].pc = "n_flock"
  /\ ino[proc[p].fd].lock \notin {0, p}

DedupOverOrHolder(p) ==
  \/ proc[p].pc = "idle"
  \/ proc[p].fd # 0 /\ ino[proc[p].fd].lock = p

C26_LockedOutNeverWaits ==
  \A p \in Procs : TriesHeldLock(p) ~> DedupOverOrHolder(p)

\* a notify was locked out and has ended, and two seconds after the start
\* the holder is still inside its locked section
C26_Witness ==
  /\ exited.cmd = "notify" /\ exited.why = "lock" /\ exited.exit = 0
  /\ now >= StartTime + 2
  /\ \E q \in Procs : InLockedSection(q) /\ ino[proc[q].fd].lock = q

\* ---- C27: the lock of a session file is held only by a notify that is
\* ---- inside its dedup check with that file open; whichever way a check
\* ---- ends (proceed, threshold skip, or the exception raised when the text
\* ---- read has no timestamp line), the invocation holds no lock and no open
\* ---- file afterwards, so the lock is free for a later invocation
InDedupCheck(r) ==
  r.cmd = "notify" /\ r.pc \in {"n_read", "n_check", "n_write", "n_close"}

C27_LockReleasedOnEveryPath ==
  /\ \A i \in Inodes :
       ino[i].lock # 0 =>
         /\ InDedupCheck(proc[ino[i].lock])
         /\ proc[ino[i].lock].fd = i
         /\ proc[ino[i].lock].why # "lock"
  /\ \A r \in Records :
       (r.cmd = "notify" /\ ~InDedupCheck(r) /\ r.pc # "n_flock") => r.fd = 0
  /\ (exited.cmd = "notify" /\ Quiet) => \A i \in Inodes : ino[i].lock = 0

\* a notify whose check read a file that an init had just truncated has
\* ended with IndexError, and the lock of the session file is free
C27_Witness ==
  /\ exited.cmd = "notify" /\ exited.err = "IndexError" /\ exited.exit = 1
  /\ dir[exited.sid] # 0
  /\ ino[dir[exited.sid]].lock = 0

\* ---- C28 as stated: a process that writes a session file holds that file's
\* ---- lock (an init between write_text's open and its write included), and
\* ---- inside a notify's locked read-check-rewrite the file still holds what
\* ---- the notify read
Writing(r) == r.pc \in {"n_write", "in_write"}

C28_MutationOnlyUnderLock ==
  \A p \in Procs :
    /\ Writing(proc[p]) => ino[proc[p].fd].lock = p
    /\ proc[p].pc \in {"n_check", "n_write"} => FileLines(proc[p].fd) = proc[p].lines

\* ---- C29: for an ascending checkpoint list, the k-th sleep lasts exactly
\* ---- checks[k] - checks[k-1] (checks[1] for the first), every sample is
\* ---- taken after the sleep of its checkpoint, one per checkpoint in list
\* ---- order, and when the push is sent every checkpoint was slept to and
\* ---- sampled once and the sleeps add up to the last checkpoint
Ascending(c) == \A k \in 1..Len(c) - 1 : c[k] <= c[k + 1]

Gap(c, k) == c[k] - (IF k = 1 THEN 0 ELSE c[k - 1])

RECURSIVE Total(_)
Total(s) == IF s = <<>> THEN 0 ELSE Head(s) + Total(Tail(s))

C29_SleepsAreGaps ==
  \A r \in Records :
    (r.cmd = "push" /\ Ascending(r.checks)) =>
      /\ Len(r.sleeps) <= Len(r.checks)
      /\ \A k \in 1..Len(r.sleeps) : r.sleeps[k] = Gap(r.checks, k)
      /\ Len(r.samples) <= Len(r.sleeps) /\ Len(r.sleeps) <= Len(r.samples) + 1
      /\ r.pc = "i_sample" => Len(r.sleeps) = Len(r.samples) + 1
      /\ r.pc = "i_sample" => now >= StartTime + r.checks[Len(r.sleeps)]
      /\ r.pushes > 0 =>
           /\ Len(r.samples) = Len(r.checks)
           /\ Total(r.sleeps) = r.checks[Len(r.checks)]

\* checkpoints [1, 2, 3]: three sleeps of one second, three samples, one push
C29_Witness ==
  /\ exited.cmd = "push" /\ exited.checks = <<1, 2, 3>>
  /\ exited.sleeps = <<1, 1, 1>>
  /\ Len(exited.samples) = 3 /\ exited.pushes = 1

\* ---- C30 as stated: the idle escalation called with an empty checkpoint
\* ---- list ends with a configuration error (ValueError) and sends no push
EmptyListDone(r) == r.cmd = "push" /\ r.checks = <<>> /\ r.pc = "done"

C30_EmptyListFails ==
  \A r \in Records :
    EmptyListDone(r) => (r.err = "ValueError" /\ r.pushes = 0)

\* ---- C30, amended: the idle escalation called with an empty checkpoint
\* ---- list never sleeps, samples or pushes; it ends with a configuration
\* ---- error (ValueError) when both push credentials are set and non-empty,
\* ---- and returns without error, skipped entirely, when they are not
C30_EmptyListFailsWhenConfigured ==
  \A r \in Records :
    (r.cmd = "push" /\ r.checks = <<>>) =>
      /\ r.sleeps = <<>> /\ r.samples = <<>> /\ r.pushes = 0
      /\ r.pc = "done" =>
           IF Truthy(env.token) /\ Truthy(env.user)
             THEN r.err = "ValueError" /\ r.exit = 1
             ELSE r.err = "" /\ r.exit = 0

\* both credentials set, empty list: the call has ended with ValueError
C30_Witness ==
  /\ EmptyListDone(exited)
  /\ env.token = "x" /\ env.user = "x"
  /\ exited.err = "ValueError" /\ exited.pushes = 0

\* ---- C31 as stated: when the stat or the deletion of a file fails during
\* ---- the sweep, that entry is skipped, every other file older than 5 days
\* ---- is deleted all the same, and the cleanup ends with status 0
C31_SweepSurvivesFileErrors ==
  (exited.cmd = "cleanup" /\ exited.stdin = "OK") =>
    /\ exited.exit = 0
    /\ \A n \in exited.listed :
         (/\ exited.ages[n] # NoTs
          /\ exited.ages[n] > CLEANUP_AGE_SECONDS
          /\ n \notin exited.failed) => dir[n] = 0

\* ---- C32 as stated: a notify whose check reads a session file that has no
\* ---- timestamp line does not crash on it: no notify ends, or is about to
\* ---- end, with the IndexError of the missing line
C32_MissingTimestampTolerated ==
  \A r \in Records :
    r.cmd = "notify" => r.err # "IndexError"

\* ---- C33 as stated: of notify invocations of one session that all start
\* ---- within 2 seconds of the first, no two have both invoked the sink and
\* ---- no two are both about to send a push
C33_BurstNotifiesOnce ==
  \A p \in Procs, q \in Procs :
    p # q =>
      /\ ~(proc[p].sent # <<>> /\ proc[q].sent # <<>>)
      /\ ~(proc[p].pc = "i_push" /\ proc[q].pc = "i_push")

\* ---- C33, amended: what counts is when the dedup checks are made, not
\* ---- when the invocations start.  An invocation invokes the sink at most
\* ---- once and sends at most one push, and only after its check proceeded;
\* ---- and a check proceeds after an earlier one did only if it is made 2
\* ---- seconds or more after it.  So invocations whose checks are all made
\* ---- less than 2 seconds after the first check that proceeded invoke the
\* ---- sink at most once and send at most one push in total
C33_ChecksWithinThresholdNotifyOnce ==
  /\ \A r \in Records :
       r.cmd = "notify" =>
         /\ Len(r.sent) <= 1 /\ r.pushes <= 1
         /\ (r.sent # <<>> \/ r.pushes > 0 \/ r.pc \in {"n_send", "i_push"}) =>
              (~r.dup /\ r.fd = 0 /\ r.orig # "")
         /\ r.dup => (r.sent = <<>> /\ r.pushes = 0)
  /\ \A p \in Procs :
       (proc[p].pc = "n_write" /\ proc[p].prevp >= StartTime) =>
         proc[p].t0 - proc[p].prevp >= Threshold

\* one invocation has invoked the sink and is still running; the other one,
\* checking within the threshold, is skipped
C33_Witness ==
  \E p \in Procs, q \in Procs :
    /\ p # q
    /\ Len(proc[q].sent) = 1 /\ proc[q].sent[1].launched
    /\ proc[p].pc = "n_close" /\ proc[p].why = "threshold"
    /\ proc[p].t0 - proc[p].prevp < Threshold /\ proc[p].prevp >= StartTime

\* ---- C34: a notify told "skip" by the dedup check, by the threshold or by
\* ---- a held lock, does nothing more than close the file: it queries no
\* ---- window, invokes no sink, never sleeps, samples or pushes, and ends
\* ---- with status 0 and no error
C34_DuplicateDoesNothingFurther ==
  \A r \in Records :
    (r.cmd = "notify" /\ r.dup) =>
      /\ r.why \in {"threshold", "lock"}
      /\ r.pc \in {"n_close", "done"}
      /\ r.focusq = 0 /\ r.orig = "" /\ r.sent = <<>>
      /\ r.sleeps = <<>> /\ r.samples = <<>> /\ r.pushes = 0
      /\ r.pc = "done" => (r.exit = 0 /\ r.err = "" /\ r.logged = NoEntry)

\* with push configured, a notify skipped by the threshold has ended with
\* status 0 while the invocation that proceeded waits for its idle checkpoint
C34_Witness ==
  /\ exited.cmd = "notify" /\ exited.dup /\ exited.why = "threshold"
  /\ exited.exit = 0
  /\ Truthy(env.token) /\ Truthy(env.user)
  /\ \E q \in Procs : proc[q].pc = "i_wait"

\* ---- C35 as stated: when the idle-time query fails at a checkpoint, in
\* ---- whatever way (binary missing, non-zero exit, timeout, no idle line,
\* ---- unparsable value), the escalation stops without a push and the
\* ---- notify ends with status 0
LastSampleFailed(r) ==
  r.samples # <<>> /\ r.samples[Len(r.samples)].fail # ""

C35_IdleQueryFailureMeansActive ==
  \A r \in Records :
    (r.cmd = "notify" /\ LastSampleFailed(r)) =>
      /\ r.pc = "done" /\ r.pushes = 0
      /\ r.exit = 0 /\ r.err = ""

\* ---- C36: a notify is in the idle escalation, or has slept, sampled or
\* ---- pushed, only after its local step is over (the stored window was
\* ---- found focused, or the sink was launched); and a notify whose sink
\* ---- could not be launched has ended with exit status 1 without any
\* ---- sleep, sample or push
InEscalation(r) ==
  \/ r.pc \in {"i_cfg", "i_sleep", "i_wait", "i_sample", "i_push"}
  \/ r.sleeps # <<>> \/ r.samples # <<>> \/ r.pushes > 0

SinkNotLaunched(r) == r.sent # <<>> /\ ~r.sent[Len(r.sent)].launched

C36_EscalationAfterLocalStep ==
  \A r \in Records :
    r.cmd = "notify" =>
      /\ InEscalation(r) =>
           /\ r.win \in Windows
           /\ r.win = r.orig \/ (Len(r.sent) = 1 /\ r.sent[1].launched)
      /\ SinkNotLaunched(r) =>
           /\ r.pc = "done" /\ r.exit = 1 /\ r.err = "OSError"
           /\ r.sleeps = <<>> /\ r.samples = <<>> /\ r.pushes = 0

\* with both credentials set, a notify whose sink could not be launched has
\* ended with status 1
C36_Witness ==
  /\ exited.cmd = "notify" /\ SinkNotLaunched(exited)
  /\ exited.exit = 1
  /\ Truthy(env.token) /\ Truthy(env.user)

\* ---- C37: when a notify that passed the dedup check has ended with an
\* ---- exception, the record still holds the timestamp its check wrote,
\* ---- under the same window id; a retry reads that timestamp, is skipped
\* ---- by the threshold exactly if its check comes less than 2 seconds
\* ---- after it, and a skipped retry queries no window, sends nothing and
\* ---- ends with status 0
IsRetry(r) == started >= 2 /\ r.cmd = "notify"

C37_FailedNotifyKeepsTimestamp ==
  /\ FailedPastDedup(exited) =>
       LET f == ino[dir[exited.sid]] IN
         /\ dir[exited.sid] # 0
         /\ lastProceed[dir[exited.sid]] >= StartTime
         /\ f.ts >= lastProceed[dir[exited.sid]] /\ f.ts <= now
         /\ f.win = "w1"
  /\ \A r \in Records :
       IsRetry(r) =>
         /\ r.pc \in {"n_check", "n_write", "n_close"} /\ r.lines.n > 0 =>
              /\ r.lines.l1 >= StartTime
              /\ r.lines.l1 >= lastProceed[r.fd] \/ r.pc # "n_check"
         /\ r.pc = "n_write" => r.t0 - r.lines.l1 >= Threshold
         /\ r.pc = "n_close" => (r.dup <=> r.t0 - r.lines.l1 < Threshold)
         /\ r.dup =>
              /\ r.focusq = 0 /\ r.sent = <<>> /\ r.samples = <<>> /\ r.pushes = 0
              /\ r.pc = "done" => (r.exit = 0 /\ r.err = "")

\* the retry of a notify that failed after its check has ended, skipped by
\* the threshold, and the record holds the timestamp the failed notify wrote
C37_Witness ==
  /\ IsRetry(exited) /\ started = 2
  /\ exited.why = "threshold" /\ exited.exit = 0 /\ exited.sent = <<>>
  /\ ino[dir[exited.sid]].ts >= StartTime
  /\ now - ino[dir[exited.sid]].ts < Threshold

\* ---- C38: no step removes from the session directory a file that init
\* ---- created, or a proceeding notify rewrote, less than 5 days before
\* ---- the step: a name that leaves the directory named a file last written
\* ---- at least 5 days ago
C38_FreshRecordNeverDeleted ==
  [][\A n \in Names :
       (dir[n] # 0 /\ dir'[n] = 0) =>
         now - ino[dir[n]].mtime >= CLEANUP_AGE_SECONDS]_vars

\* ---- C39: the step in which an init ends with an exception (unusable
\* ---- stdin, or a focus query that failed) leaves the directory and every
\* ---- file as they were, and that init never opened a session file; a step
\* ---- of an init changes the directory or a file only after its stdin was
\* ---- parsed and its focus query answered with a window id
C39_FailedInitLeavesStoreUnchanged ==
  [][/\ (exited'.cmd = "init" /\ exited'.exit = 1) =>
          /\ dir' = dir /\ ino' = ino
          /\ exited'.fd = 0 /\ ~exited'.had
          /\ exited'.stdin # "OK" \/ exited'.focus \notin Windows
     /\ \A p \in Procs :
          (/\ proc[p].cmd = "init" \/ proc'[p].cmd = "init" \/ exited'.cmd = "init"
           /\ proc'[p] # proc[p]
           /\ dir' # dir \/ ino' # ino) =>
            /\ proc[p].pc \in {"in_open", "in_write"}
            /\ proc[p].stdin = "OK"
            /\ proc[p].focus \in Windows /\ proc[p].win = proc[p].focus]_vars

\* an init has just ended with status 1 on a failed focus query, and the
\* record of its session still holds window w1 and the timestamp a notify
\* wrote
C39_Witness ==
  /\ exited.cmd = "init" /\ exited.exit = 1 /\ exited.err = "RuntimeError"
  /\ dir[exited.sid] # 0
  /\ ino[dir[exited.sid]].win = "w1"
  /\ ino[dir[exited.sid]].ts > 0

====
